---- MODULE Spec2Model ----
(***************************************************************************)
(* Column registry (TabularData), transformer contract (Primitive) and     *)
(* pipeline orchestration (TabularPreprocessor) of                         *)
(* src/autokaggle/preprocessor.py, at the level of the schema: column ids, *)
(* row labels, the type map and its derived lists, and each transformer's  *)
(* learned column sets.  Where the code decides something from cell values *)
(* (which columns are constant, how many principal components are kept)    *)
(* the schema-level operators take every outcome.  The cell values         *)
(* themselves are carried for the stages whose effect on them is at stake  *)
(* (Imputation, CatEncoder, TimeOffset), in the specification SpecValues.  *)
(***************************************************************************)
EXTENDS Integers, Sequences, FiniteSets, TLC

(* ------------------------------ bounds --------------------------------- *)
\* columns of a raw table
MaxCols == 2
\* rows of a raw table
MaxRows == 2
\* calls a caller makes on one Dataset / transformer pair
MaxSteps == 3

(* ------------------------- Python-level helpers ------------------------ *)
\* str(i) for a non-negative int (lines 133, 142, 496)
Digit(d) ==
  CASE d = 0 -> "0" [] d = 1 -> "1" [] d = 2 -> "2" [] d = 3 -> "3"
    [] d = 4 -> "4" [] d = 5 -> "5" [] d = 6 -> "6" [] d = 7 -> "7"
    [] d = 8 -> "8" [] OTHER -> "9"

RECURSIVE str(_)
str(i) == IF i < 10 THEN Digit(i) ELSE str(i \div 10) \o Digit(i % 10)

\* An optional value: <<>> is Python's None (or an unset attribute), <<v>> is v.
None == <<>>
Some(v) == <<v>>

\* The new_type argument when it is None (falsy at line 155).
NoType == "None"

Range(s) == {s[i] : i \in 1..Len(s)}
When(cond, S) == IF cond THEN S ELSE {}
NoDup(s) == \A i, j \in 1..Len(s) : s[i] = s[j] => i = j

\* Row labels.  An integer label i of a pandas index and the string label
\* "i" are different labels; integer labels are written "int:i".
IntLabel(i) == "int:" \o str(i)
RangeIndex(n) == {IntLabel(i) : i \in 0..(n - 1)}

(* --------------------- the type map: an ordered dict ------------------- *)
\* A dict is a sequence of [k, v] entries in insertion order.
Keys(d) == [i \in 1..Len(d) |-> d[i].k]
HasKey(d, k) == \E i \in 1..Len(d) : d[i].k = k
DictSet(d, k, v) ==
  IF HasKey(d, k)
  THEN [i \in 1..Len(d) |-> IF d[i].k = k THEN [k |-> k, v |-> v] ELSE d[i]]
  ELSE Append(d, [k |-> k, v |-> v])
DictPop(d, k) == SelectSeq(d, LAMBDA e : e.k # k)
KeysOfType(d, t) == Keys(SelectSeq(d, LAMBDA e : e.v = t))

(* ------------------------------ TabularData ---------------------------- *)
\* TabularData.update_type (lines 154-158)
RECURSIVE update_type(_, _, _)
update_type(info, columns, new_type) ==
  IF new_type = NoType \/ columns = <<>> THEN info
  ELSE update_type(DictSet(info, Head(columns), new_type), Tail(columns), new_type)

\* TabularData.delete_type (lines 160-162)
RECURSIVE delete_type(_, _)
delete_type(info, columns) ==
  IF columns = <<>> THEN info
  ELSE delete_type(DictPop(info, Head(columns)), Tail(columns))

\* TabularData.refresh_col_types (lines 181-187)
refresh_col_types(d) ==
  LET cat == KeysOfType(d.data_info, "CAT")
      num == KeysOfType(d.data_info, "NUM")
      time == KeysOfType(d.data_info, "TIME")
  IN  [d EXCEPT !.cat_col = cat, !.num_col = num, !.time_col = time,
                !.n_time = Len(time), !.n_num = Len(num), !.n_cat = Len(cat)]

\* TabularData.select_columns (lines 193-205): the Dataset after the refresh
\* and the list returned.
select_columns(d, data_type) ==
  LET r == refresh_col_types(d)
  IN  [data |-> r,
       cols |-> CASE data_type = "CAT" -> r.cat_col
                  [] data_type = "TIME" -> r.time_col
                  [] data_type = "NUM" -> r.num_col
                  [] data_type = "ALL" -> Keys(r.data_info)
                  [] OTHER -> <<>>]

\* A raw table: an ndarray gets the column ids str(0..) and a RangeIndex
\* (line 142); a DataFrame keeps its own columns and row index (line 144).
RawTable(kind, ncols, index) ==
  [kind |-> kind, columns |-> [i \in 1..ncols |-> str(i - 1)], index |-> index]

\* TabularData.__init__ (lines 131-146)
TabularData(raw_x, hints) ==
  refresh_col_types(
    [X |-> [columns |-> raw_x.columns, index |-> raw_x.index],
     data_info |-> [i \in 1..Len(hints) |-> [k |-> str(i - 1), v |-> hints[i]]],
     total_samples |-> Cardinality(raw_x.index),
     cat_col |-> <<>>, num_col |-> <<>>, time_col |-> <<>>,
     n_cat |-> 0, n_time |-> 0, n_num |-> 0])

(* The values handed to update: None, a 2-d ndarray (width columns, one row
   per label of index) or a DataFrame (columns, index). *)
NoValues == [kind |-> "None", columns |-> <<>>, index |-> {}, width |-> 0]
NdArray(nrows, w) ==
  [kind |-> "ndarray", columns |-> <<>>, index |-> RangeIndex(nrows), width |-> w]
Frame(cols, index) ==
  [kind |-> "frame", columns |-> cols, index |-> index, width |-> Len(cols)]

\* self.X[columns] = x_tr (line 167).  What pandas does with a key that is
\* not a column, and with a DataFrame whose width differs from the key's,
\* depends on the pandas release: a missing key raises KeyError or is
\* appended as a new column, a DataFrame of another width is aligned by
\* column name or rejected.  Every outcome is kept.  Rows are never added or
\* removed: the value is aligned to the table's index.
setitem(X, columns, x_tr) ==
  LET missing == SelectSeq(columns, LAMBDA c : c \notin Range(X.columns))
      dup == \E i, j \in 1..Len(X.columns) :
               i # j /\ X.columns[i] = X.columns[j] /\ X.columns[i] \in Range(columns)
      shapeOK == /\ x_tr.width = Len(columns)
                 /\ x_tr.kind = "ndarray" => Cardinality(x_tr.index) = Cardinality(X.index)
  IN  When(missing = <<>> /\ (dup \/ shapeOK \/ x_tr.kind = "frame"),
           {[X |-> X, err |-> "none"]})
      \cup When(missing # <<>> /\ NoDup(missing) /\ shapeOK,
                {[X |-> [X EXCEPT !.columns = X.columns \o missing], err |-> "none"]})
      \cup When(~shapeOK \/ dup, {[X |-> X, err |-> "ValueError"]})
      \cup When(missing # <<>>, {[X |-> X, err |-> "KeyError"]})

\* pd.concat([self.X, x_tr], axis=1) (line 171): only pandas objects can be
\* concatenated; the columns of x_tr are appended whatever their ids, and the
\* rows are the union of the two row indexes (an outer join).
concat(X, x_tr) ==
  IF x_tr.kind # "frame" THEN [X |-> X, err |-> "TypeError"]
  ELSE [X |-> [columns |-> X.columns \o x_tr.columns,
               index |-> X.index \cup x_tr.index],
        err |-> "none"]

\* self.X.drop(columns, inplace=True) (line 175): no axis is given, so the
\* labels are looked up in the row index (axis 0); a label that is not a row
\* label raises KeyError, otherwise the rows so labelled are removed.
drop(X, labels) ==
  IF Range(labels) \subseteq X.index
  THEN [X |-> [X EXCEPT !.index = X.index \ Range(labels)], err |-> "none"]
  ELSE [X |-> X, err |-> "KeyError"]

\* The branches of TabularData.update (lines 165-178), before the refresh of
\* line 179: the set of outcomes [data, err].
update_body(d, operation, columns, x_tr, new_type) ==
  CASE operation = "upd" ->
         {IF s.err # "none" THEN [data |-> d, err |-> s.err]
          ELSE [data |-> [d EXCEPT !.X = s.X,
                             !.data_info = update_type(d.data_info, columns, new_type)],
                err |-> "none"] :
            s \in IF x_tr.kind # "None" THEN setitem(d.X, columns, x_tr)
                  ELSE {[X |-> d.X, err |-> "none"]}}
    [] operation = "add" ->
         IF x_tr.kind = "None" THEN {[data |-> d, err |-> "none"]}
         ELSE LET s == concat(d.X, x_tr)
              IN  {IF s.err # "none" THEN [data |-> d, err |-> s.err]
                   ELSE [data |-> [d EXCEPT !.X = s.X,
                                      !.data_info = update_type(d.data_info, x_tr.columns, new_type)],
                         err |-> "none"]}
    [] operation = "del" ->
         IF Len(columns) = 0 THEN {[data |-> d, err |-> "none"]}
         ELSE LET s == drop(d.X, columns)
              IN  {IF s.err # "none" THEN [data |-> d, err |-> s.err]
                   ELSE [data |-> [d EXCEPT !.X = s.X,
                                      !.data_info = delete_type(d.data_info, columns)],
                         err |-> "none"]}
    [] OTHER -> {[data |-> d, err |-> "none"]}

\* TabularData.update without the refresh of line 179.
update_skips_refresh(d, operation, columns, x_tr, new_type) ==
  update_body(d, operation, columns, x_tr, new_type)

\* TabularData.update whose else branch (line 177) falls through to the
\* retagging of 'upd'.
update_unknown_retags(d, operation, columns, x_tr, new_type) ==
  IF operation \in {"upd", "add", "del"}
  THEN {[data |-> IF o.err = "none" THEN refresh_col_types(o.data) ELSE o.data,
         err |-> o.err] : o \in update_body(d, operation, columns, x_tr, new_type)}
  ELSE {[data |-> refresh_col_types(
                    [d EXCEPT !.data_info = update_type(d.data_info, columns, new_type)]),
         err |-> "none"]}

\* TabularData.update (lines 164-179): the set of outcomes [data, err].  An
\* exception leaves the method before line 179; nothing has been assigned by
\* then.
update(d, operation, columns, x_tr, new_type) ==
  {[data |-> IF o.err = "none" THEN refresh_col_types(o.data) ELSE o.data,
    err |-> o.err] : o \in update_body(d, operation, columns, x_tr, new_type)}

(* ----------------------------- the stage list --------------------------- *)
\* The constructor calls of TabularPreprocessor.fit (lines 58-73), in order:
\* the step name, the class and the keyword arguments passed.
StageList ==
  << [name |-> "imputer", cls |-> "Imputation",
      kwargs |-> [selected_type |-> "ALL", operation |-> "upd"]],
     [name |-> "cat_num_encoder", cls |-> "CatNumEncoder",
      kwargs |-> [selected_type1 |-> "CAT", selected_type2 |-> "NUM"]],
     [name |-> "cat_num_encoder", cls |-> "CatCatEncoder",
      kwargs |-> [selected_type1 |-> "CAT", selected_type2 |-> "CAT"]],
     [name |-> "target_encoder", cls |-> "TargetEncoder",
      kwargs |-> [selected_type |-> "CAT", operation |-> "add"]],
     [name |-> "count_encoder", cls |-> "CatCount",
      kwargs |-> [selected_type |-> "CAT", operation |-> "add"]],
     [name |-> "label_encoder", cls |-> "CatEncoder",
      kwargs |-> [selected_type |-> "CAT", operation |-> "add"]],
     [name |-> "boxcox", cls |-> "BoxCox",
      kwargs |-> [selected_type |-> "NUM", operation |-> "upd"]],
     [name |-> "log_square", cls |-> "LogTransform",
      kwargs |-> [selected_type |-> "NUM", operation |-> "upd"]],
     [name |-> "scaler", cls |-> "TabScaler",
      kwargs |-> [selected_type |-> "NUM", operation |-> "upd"]],
     [name |-> "binning", cls |-> "Binning",
      kwargs |-> [selected_type |-> "NUM", operation |-> "add"]],
     [name |-> "pca", cls |-> "TabPCA",
      kwargs |-> [selected_type |-> "NUM", operation |-> "add"]],
     [name |-> "time_diff", cls |-> "TimeDiff",
      kwargs |-> [selected_type |-> "TIME", operation |-> "upd"]],
     [name |-> "time_offset", cls |-> "TimeOffset",
      kwargs |-> [selected_type |-> "TIME", operation |-> "upd"]],
     [name |-> "filter", cls |-> "FilterConstant",
      kwargs |-> [selected_type |-> "ALL", operation |-> "del"]],
     [name |-> "pearson_corr", cls |-> "FeatureFilter",
      kwargs |-> [selected_type |-> "ALL", operation |-> "del"]],
     [name |-> "lgbm_feat_selection", cls |-> "FeatureImportance",
      kwargs |-> [selected_type |-> "ALL", operation |-> "del"]] >>

\* The classes whose __init__ is PrimitiveHigherOrder's (lines 237-241).
HigherOrderClasses == {"CatCatEncoder", "CatBinEncoder"}

\* The __init__ that a class runs: the keyword names it declares and whether
\* it takes **kwargs (lines 212, 237, 275, 378, 550, 570).
InitSignature(cls) ==
  CASE cls \in HigherOrderClasses ->
         [params |-> {"operation", "selected_type1", "selected_type2"}, var_kw |-> TRUE]
    [] cls = "CatNumEncoder" ->
         [params |-> {"selected_type", "selected_num", "operation", "strategy"},
          var_kw |-> FALSE]
    [] cls = "Binning" ->
         [params |-> {"selected_type", "operation", "strategy", "encoding"},
          var_kw |-> FALSE]
    [] cls = "FeatureFilter" ->
         [params |-> {"selected_type", "operation", "threshold"}, var_kw |-> FALSE]
    [] cls = "FeatureImportance" ->
         [params |-> {"selected_type", "operation", "threshold", "task_type"},
          var_kw |-> FALSE]
    [] OTHER -> [params |-> {"selected_type", "operation"}, var_kw |-> TRUE]

Arg(kw, name, default) == IF name \in DOMAIN kw THEN kw[name] ELSE default

\* The attributes a constructor leaves on the instance.  selected_type is
\* None (unset) on a PrimitiveHigherOrder, whose __init__ never assigns it;
\* CatNumEncoder passes (selected_type, operation) positionally to
\* PrimitiveHigherOrder.__init__(operation, selected_type1) (line 379).
\* selected and drop_columns start as the class attributes (lines 209-210),
\* drop_columns as [] for the two filters that assign it (lines 553, 573).
NewInstance(cls, kw) ==
  [cls |-> cls,
   selected_type |->
     IF cls \in HigherOrderClasses \cup {"CatNumEncoder"} THEN None
     ELSE Some(Arg(kw, "selected_type", "None")),
   operation |->
     CASE cls = "CatNumEncoder" -> Arg(kw, "selected_type", "None")
       [] cls \in {"FeatureFilter", "FeatureImportance"} -> Arg(kw, "operation", "del")
       [] OTHER -> Arg(kw, "operation", "upd"),
   selected_type1 |->
     IF cls = "CatNumEncoder" THEN Arg(kw, "operation", "add")
     ELSE Arg(kw, "selected_type1", "None"),
   selected_type2 |-> Arg(kw, "selected_type2", "None"),
   selected |-> None,
   drop_columns |->
     IF cls \in {"FeatureFilter", "FeatureImportance"} THEN Some(<<>>) ELSE None,
   params |-> None]

\* A constructor call: Python raises TypeError for a keyword the __init__
\* neither declares nor collects in **kwargs.
Construct(stage) ==
  LET sig == InitSignature(stage.cls)
  IN  IF ~sig.var_kw /\ ~(DOMAIN stage.kwargs \subseteq sig.params)
      THEN [err |-> "TypeError", obj |-> NewInstance(stage.cls, << >>)]
      ELSE [err |-> "none", obj |-> NewInstance(stage.cls, stage.kwargs)]

(* ------------------------ reading the table ---------------------------- *)
NRows(X) == Cardinality(X.index)

\* The position of the first id of cols that is not a column (0: none);
\* data.X[col] raises KeyError there.
FirstMissing(X, cols) ==
  IF \A i \in 1..Len(cols) : cols[i] \in Range(X.columns) THEN 0
  ELSE CHOOSE i \in 1..Len(cols) :
         /\ cols[i] \notin Range(X.columns)
         /\ \A j \in 1..(i - 1) : cols[j] \in Range(X.columns)

\* data.X[cols]: for each key, every column of that id.
RECURSIVE getitem(_, _)
getitem(X, cols) ==
  IF cols = <<>> THEN <<>>
  ELSE SelectSeq(X.columns, LAMBDA c : c = Head(cols)) \o getitem(X, Tail(cols))

\* itertools.combinations(s, 2), in its order.
RECURSIVE combinations(_)
combinations(s) ==
  IF Len(s) < 2 THEN <<>>
  ELSE [i \in 1..(Len(s) - 1) |-> <<s[1], s[i + 1]>>] \o combinations(Tail(s))

\* Every sub-list of s, order kept: what a boolean mask can select.
RECURSIVE SubLists(_)
SubLists(s) ==
  IF s = <<>> THEN {<<>>}
  ELSE LET rest == SubLists(Tail(s))
       IN  rest \cup {<<Head(s)>> \o r : r \in rest}

Learned(cols, k) == Some([cols |-> cols, k |-> k])
Out(tr, d, err, calls) == [tr |-> tr, data |-> d, err |-> err, calls |-> calls]

(* ------------------------------- _fit ---------------------------------- *)
\* The fit of an sklearn estimator on data.X[self.selected] (lines 248-249,
\* 262-263, 281-282, 490-491): the estimator object is assigned first, the
\* columns are read (KeyError), and sklearn rejects a table without rows.
\* PCA(n_components=0.99) keeps between 1 and min(rows, columns) components.
SklearnFit(tr, d) ==
  LET cols == getitem(d.X, tr.selected[1])
      ks == IF tr.cls = "TabPCA"
            THEN 1..(IF NRows(d.X) < Len(cols) THEN NRows(d.X) ELSE Len(cols))
            ELSE {0}
  IN  IF FirstMissing(d.X, tr.selected[1]) # 0
      THEN {Out([tr EXCEPT !.params = None], d, "KeyError", <<>>)}
      ELSE IF NRows(d.X) = 0
      THEN {Out([tr EXCEPT !.params = None], d, "ValueError", <<>>)}
      ELSE {Out([tr EXCEPT !.params = Learned(cols, k)], d, "none", <<>>) : k \in ks}

\* A loop `for col in self.selected: learned[col] = f(data.X[col])` (lines
\* 298-303, 504-507, 537-539): the dict holds the columns before the first
\* one that is missing, where KeyError leaves the loop.
PerColumnFit(tr, d) ==
  LET sel == tr.selected[1]
      m == FirstMissing(d.X, sel)
  IN  IF m # 0
      THEN {Out([tr EXCEPT !.params = Learned(SubSeq(sel, 1, m - 1), 0)], d, "KeyError", <<>>)}
      ELSE {Out([tr EXCEPT !.params = Learned(sel, 0)], d, "none", <<>>)}

\* CatEncoder._fit (lines 295-304): X[row_index, col_index] asks the
\* DataFrame for a column whose id is the tuple, which raises KeyError on the
\* first row of the first column, after that column's empty map was stored.
CatEncoder_fit(tr, d) ==
  LET sel == tr.selected[1]
  IN  IF NRows(d.X) > 0
      THEN {Out([tr EXCEPT !.params = Learned(<<sel[1]>>, 0)], d, "KeyError", <<>>)}
      ELSE {Out([tr EXCEPT !.params = Learned(sel, 0)], d, "none", <<>>)}

\* TargetEncoder._fit (lines 332-339): the label column 'target' is put into
\* the table, each selected column is grouped (KeyError when missing,
\* ValueError when two columns carry the id) and 'target' is dropped again
\* along axis 1; an exception leaves 'target' in the table.
TargetEncoder_fit(tr, d) ==
  LET sel == tr.selected[1]
      bad == {i \in 1..Len(sel) : Len(getitem(d.X, <<sel[i]>>)) # 1}
      withTarget == [d EXCEPT !.X.columns =
                       IF "target" \in Range(@) THEN @ ELSE Append(@, "target")]
      without == [d EXCEPT !.X.columns = SelectSeq(@, LAMBDA c : c # "target")]
  IN  IF bad # {}
      THEN LET m == CHOOSE i \in bad : \A j \in bad : i <= j
           IN  {Out([tr EXCEPT !.params = Learned(SubSeq(sel, 1, m - 1), 0)], withTarget,
                    IF Len(getitem(d.X, <<sel[m]>>)) = 0 THEN "KeyError" ELSE "ValueError",
                    <<>>)}
      ELSE {Out([tr EXCEPT !.params = Learned(sel, 0)], without, "none", <<>>)}

\* FilterConstant._fit (lines 449-452): the columns whose maximum equals
\* their minimum, any sub-list of the table's columns (none in a table
\* without rows, whose maxima are all NaN).
FilterConstant_fit(tr, d) ==
  {Out([tr EXCEPT !.drop_columns = Some(dc)], d, "none", <<>>) :
     dc \in IF NRows(d.X) = 0 THEN {<<>>} ELSE SubLists(d.X.columns)}

\* FeatureFilter._fit (lines 555-562): the selected columns correlating
\* below the threshold are appended to drop_columns, which __init__ set to
\* [] and no fit resets.  pearsonr needs two rows (ValueError); a missing
\* column raises KeyError after the columns before it were examined.
FeatureFilter_fit(tr, d) ==
  LET sel == tr.selected[1]
      m == FirstMissing(d.X, sel)
      seen == IF m = 0 THEN sel ELSE SubSeq(sel, 1, m - 1)
  IN  IF m = 1 THEN {Out(tr, d, "KeyError", <<>>)}
      ELSE IF NRows(d.X) < 2 THEN {Out(tr, d, "ValueError", <<>>)}
      ELSE {Out([tr EXCEPT !.drop_columns = Some(@[1] \o dc)], d,
                IF m = 0 THEN "none" ELSE "KeyError", <<>>) : dc \in SubLists(seen)}

\* FeatureImportance._fit (lines 576-600): the estimator is trained on the
\* whole table (it rejects a table without rows) and the columns of low
\* importance, any sub-list of the table's columns, become drop_columns.
FeatureImportance_fit(tr, d) ==
  IF NRows(d.X) = 0 THEN {Out(tr, d, "ValueError", <<>>)}
  ELSE {Out([tr EXCEPT !.drop_columns = Some(dc)], d, "none", <<>>) :
          dc \in SubLists(d.X.columns)}

\* TimeOffset._fit (lines 475-477)
TimeOffset_fit(tr, d) ==
  IF FirstMissing(d.X, tr.selected[1]) # 0 THEN {Out(tr, d, "KeyError", <<>>)}
  ELSE {Out([tr EXCEPT !.params = Learned(getitem(d.X, tr.selected[1]), 0)], d, "none", <<>>)}

\* self._fit(data, y) by class.  LogTransform and TimeDiff learn nothing
\* (lines 461-462, 521-522).
fit_impl(tr, d) ==
  CASE tr.cls \in {"TabScaler", "BoxCox", "Binning", "TabPCA"} -> SklearnFit(tr, d)
    [] tr.cls \in {"CatCount", "Imputation"} -> PerColumnFit(tr, d)
    [] tr.cls = "CatEncoder" -> CatEncoder_fit(tr, d)
    [] tr.cls = "TargetEncoder" -> TargetEncoder_fit(tr, d)
    [] tr.cls = "FilterConstant" -> FilterConstant_fit(tr, d)
    [] tr.cls = "FeatureFilter" -> FeatureFilter_fit(tr, d)
    [] tr.cls = "FeatureImportance" -> FeatureImportance_fit(tr, d)
    [] tr.cls = "TimeOffset" -> TimeOffset_fit(tr, d)
    [] OTHER -> {Out(tr, d, "none", <<>>)}

\* Primitive.fit (lines 216-220).  Reading self.selected_type raises
\* AttributeError on an instance whose __init__ never assigned it.
Primitive_fit(tr, d) ==
  IF tr.selected_type = None THEN {Out(tr, d, "AttributeError", <<>>)}
  ELSE LET s == select_columns(d, tr.selected_type[1])
           t1 == [tr EXCEPT !.selected = Some(s.cols)]
       IN  IF s.cols = <<>> THEN {Out(t1, s.data, "none", <<>>)}
           ELSE fit_impl(t1, s.data)

(* ----------------------------- _transform ------------------------------ *)
\* One call data.update(self.operation, columns, x_tr, new_type) at the end
\* of a _transform: its outcomes, with the call recorded.
Apply(tr, d, columns, x_tr, new_type) ==
  {Out(tr, o.data, o.err,
       <<[op |-> tr.operation, columns |-> columns, new_type |-> new_type]>>) :
     o \in update(d, tr.operation, columns, x_tr, new_type)}

\* TabScaler, BoxCox, Binning (lines 252-255, 266-269, 285-289): the fitted
\* estimator transforms data.X[self.selected] into an ndarray; sklearn raises
\* when the estimator was not fitted, when the table has no rows or when the
\* number of columns differs from the one seen at fit.
SklearnTransform(tr, d) ==
  LET cols == getitem(d.X, tr.selected[1])
  IN  IF FirstMissing(d.X, tr.selected[1]) # 0 THEN {Out(tr, d, "KeyError", <<>>)}
      ELSE IF tr.params = None THEN {Out(tr, d, "NotFittedError", <<>>)}
      ELSE IF NRows(d.X) = 0 \/ Len(cols) # Len(tr.params[1].cols)
      THEN {Out(tr, d, "ValueError", <<>>)}
      ELSE Apply(tr, d, tr.selected[1], NdArray(NRows(d.X), Len(cols)), "NUM")

\* TabPCA._transform (lines 494-498): the projection is wrapped in a new
\* DataFrame with columns pca_0.. and a RangeIndex of its own.
TabPCA_transform(tr, d) ==
  LET cols == getitem(d.X, tr.selected[1])
  IN  IF FirstMissing(d.X, tr.selected[1]) # 0 THEN {Out(tr, d, "KeyError", <<>>)}
      ELSE IF tr.params = None THEN {Out(tr, d, "NotFittedError", <<>>)}
      ELSE IF NRows(d.X) = 0 \/ Len(cols) # Len(tr.params[1].cols)
      THEN {Out(tr, d, "ValueError", <<>>)}
      ELSE Apply(tr, d, tr.selected[1],
                 Frame([i \in 1..tr.params[1].k |-> "pca_" \o str(i - 1)],
                       RangeIndex(NRows(d.X))),
                 "NUM")

\* CatEncoder._transform (lines 306-312): the same tuple-keyed read as in
\* _fit raises KeyError on the first row; the codes are written cell by cell
\* and data.update is never called.
CatEncoder_transform(tr, d) ==
  IF NRows(d.X) > 0 THEN {Out(tr, d, "KeyError", <<>>)} ELSE {Out(tr, d, "none", <<>>)}

\* TargetEncoder and CatCount (lines 341-346, 510-515): a new DataFrame gets
\* one column per selected column, under the selected column's own id and
\* on the table's row index; a selected column that is not in the table or
\* not in the learned dict raises KeyError.
MappedTransform(tr, d) ==
  LET sel == tr.selected[1]
      learned == IF tr.params = None THEN {} ELSE Range(tr.params[1].cols)
  IN  IF FirstMissing(d.X, sel) # 0 \/ ~(Range(sel) \subseteq learned)
      THEN {Out(tr, d, "KeyError", <<>>)}
      ELSE Apply(tr, d, sel, Frame(sel, d.X.index), "NUM")

\* LogTransform._transform (lines 524-529): columns named 'log_' + col.
LogTransform_transform(tr, d) ==
  LET sel == tr.selected[1]
  IN  IF FirstMissing(d.X, sel) # 0 THEN {Out(tr, d, "KeyError", <<>>)}
      ELSE Apply(tr, d, sel, Frame([i \in 1..Len(sel) |-> "log_" \o sel[i]], d.X.index), "NUM")

\* TimeDiff._transform (lines 464-469): one column 'a-b' per pair; with fewer
\* than two selected columns the DataFrame stays empty (no column, no row).
TimeDiff_transform(tr, d) ==
  LET sel == tr.selected[1]
      pairs == combinations(sel)
      bad == {i \in 1..Len(pairs) : FirstMissing(d.X, pairs[i]) # 0}
  IN  IF bad # {} THEN {Out(tr, d, "KeyError", <<>>)}
      ELSE Apply(tr, d, sel,
                 Frame([i \in 1..Len(pairs) |-> pairs[i][1] \o "-" \o pairs[i][2]],
                       IF pairs = <<>> THEN {} ELSE d.X.index),
                 "TIME")

\* TimeOffset._transform (lines 479-483): the difference of a DataFrame and
\* the Series of minima is a DataFrame, and x_tr[self.selected] = <DataFrame>
\* assigns it column by column, which creates the columns of the empty x_tr
\* on the table's row index (ValueError when the widths differ).
TimeOffset_transform(tr, d) ==
  LET sel == tr.selected[1]
      got == getitem(d.X, sel)
  IN  IF FirstMissing(d.X, sel) # 0 \/ tr.params = None THEN {Out(tr, d, "KeyError", <<>>)}
      ELSE IF Len(got) # Len(sel) THEN {Out(tr, d, "ValueError", <<>>)}
      ELSE Apply(tr, d, sel, Frame(sel, d.X.index), "TIME")

\* Imputation._transform (lines 542-546): fillna returns a new column that is
\* dropped; update is called without values and with new_type 'NUM'.
Imputation_transform(tr, d) ==
  LET sel == tr.selected[1]
      learned == IF tr.params = None THEN {} ELSE Range(tr.params[1].cols)
  IN  IF FirstMissing(d.X, sel) # 0 \/ ~(Range(sel) \subseteq learned)
      THEN {Out(tr, d, "KeyError", <<>>)}
      ELSE Apply(tr, d, sel, NoValues, "NUM")

\* FilterConstant, FeatureFilter, FeatureImportance (lines 454-456, 564-566,
\* 602-604); len(None) raises TypeError when no fit assigned drop_columns.
Filter_transform(tr, d) ==
  IF tr.drop_columns = None
  THEN {Out(tr, d, "TypeError",
            <<[op |-> tr.operation, columns |-> <<>>, new_type |-> NoType]>>)}
  ELSE Apply(tr, d, tr.drop_columns[1], NoValues, NoType)

\* self._transform(data, y) by class.
transform_impl(tr, d) ==
  CASE tr.cls \in {"TabScaler", "BoxCox", "Binning"} -> SklearnTransform(tr, d)
    [] tr.cls = "TabPCA" -> TabPCA_transform(tr, d)
    [] tr.cls = "CatEncoder" -> CatEncoder_transform(tr, d)
    [] tr.cls \in {"TargetEncoder", "CatCount"} -> MappedTransform(tr, d)
    [] tr.cls = "LogTransform" -> LogTransform_transform(tr, d)
    [] tr.cls = "TimeDiff" -> TimeDiff_transform(tr, d)
    [] tr.cls = "TimeOffset" -> TimeOffset_transform(tr, d)
    [] tr.cls = "Imputation" -> Imputation_transform(tr, d)
    [] tr.cls \in {"FilterConstant", "FeatureFilter", "FeatureImportance"} ->
         Filter_transform(tr, d)
    [] OTHER -> {Out(tr, d, "none", <<>>)}

\* Python's `not self.selected`: None or an empty list.
Falsy(opt) == opt = None \/ opt[1] = <<>>

\* Primitive.transform that resolves the selection again instead of using
\* the one stored by fit.
Primitive_transform_reselects(tr, d) ==
  LET s == select_columns(d, IF tr.selected_type = None THEN "None" ELSE tr.selected_type[1])
      t1 == [tr EXCEPT !.selected = Some(s.cols)]
  IN  IF s.cols = <<>> THEN {Out(t1, d, "none", <<>>)} ELSE transform_impl(t1, s.data)

\* Primitive.transform that fits again before transforming, as fit_transform
\* does.
Primitive_transform_refits(tr, d) ==
  UNION { IF f.err # "none" \/ Falsy(f.tr.selected) THEN {f} ELSE transform_impl(f.tr, f.data) :
          f \in Primitive_fit(tr, d) }

\* Primitive.transform whose guard is `self.selected is None`: an empty
\* selection goes on to _transform.
Primitive_transform_runs_empty(tr, d) ==
  IF tr.selected = None THEN {Out(tr, d, "none", <<>>)} ELSE transform_impl(tr, d)

\* Primitive.transform whose guard is `self.selected == []`: a stage that was
\* never fit goes on to _transform.
Primitive_transform_runs_unfit(tr, d) ==
  IF tr.selected = None
  THEN {Out(tr, o.data, o.err, o.calls) :
          o \in transform_impl([tr EXCEPT !.selected = Some(<<>>)], d)}
  ELSE IF tr.selected[1] = <<>> THEN {Out(tr, d, "none", <<>>)} ELSE transform_impl(tr, d)

\* Primitive.transform (lines 222-225)
Primitive_transform(tr, d) ==
  IF Falsy(tr.selected) THEN {Out(tr, d, "none", <<>>)} ELSE transform_impl(tr, d)

(* ------------------------------ the pipeline --------------------------- *)
\* The list literal of lines 57-74: the constructors run in order and the
\* first one that raises ends the evaluation.
RECURSIVE ConstructAll(_)
ConstructAll(stages) ==
  IF stages = <<>> THEN [err |-> "none", objs |-> <<>>]
  ELSE LET c == Construct(Head(stages))
       IN  IF c.err # "none" THEN [err |-> c.err, objs |-> <<>>]
           ELSE LET rest == ConstructAll(Tail(stages))
                IN  [err |-> rest.err,
                     objs |-> IF rest.err = "none" THEN <<c.obj>> \o rest.objs ELSE <<>>]

Event(ev, i) == [ev |-> ev, stage |-> i]
Run(steps, d, err, lg) == [steps |-> steps, data |-> d, err |-> err, log |-> lg]

\* self.pipeline.fit(data, y) (line 75), sklearn's Pipeline.fit: every step
\* but the last is fit and then transformed (TransformerMixin.fit_transform),
\* the last is only fit; an exception ends the run.
RECURSIVE PipelineFitFrom(_, _, _, _)
PipelineFitFrom(steps, i, d, lg) ==
  UNION { IF f.err # "none" \/ i = Len(steps)
          THEN {Run([steps EXCEPT ![i] = f.tr], f.data, f.err, Append(lg, Event("fit", i)))}
          ELSE UNION { IF t.err # "none"
                       THEN {Run([steps EXCEPT ![i] = t.tr], t.data, t.err,
                                 lg \o <<Event("fit", i), Event("transform", i)>>)}
                       ELSE PipelineFitFrom([steps EXCEPT ![i] = t.tr], i + 1, t.data,
                                            lg \o <<Event("fit", i), Event("transform", i)>>) :
                       t \in Primitive_transform(f.tr, f.data) } :
          f \in Primitive_fit(steps[i], d) }

\* sklearn's Pipeline validates its steps when fit starts: step names must
\* be unique (ValueError).
PipelineFit(names, steps, d) ==
  IF ~NoDup(names) \/ steps = <<>> THEN {Run(steps, d, "ValueError", <<>>)}
  ELSE PipelineFitFrom(steps, 1, d, <<>>)

\* self.pipeline.transform(data) (line 100), sklearn's Pipeline.transform:
\* the transform of every step in order.
RECURSIVE PipelineTransformFrom(_, _, _, _)
PipelineTransformFrom(steps, i, d, lg) ==
  IF i > Len(steps) THEN {Run(steps, d, "none", lg)}
  ELSE UNION { IF t.err # "none"
               THEN {Run([steps EXCEPT ![i] = t.tr], t.data, t.err,
                         Append(lg, Event("transform", i)))}
               ELSE PipelineTransformFrom([steps EXCEPT ![i] = t.tr], i + 1, t.data,
                                          Append(lg, Event("transform", i))) :
               t \in Primitive_transform(steps[i], d) }

\* 24 * 60 * 60 (line 94)
DefaultBudget == 24 * 60 * 60

(* -------------------------------- state -------------------------------- *)
VARIABLES
  data,          \* the Dataset most recently constructed (a TabularData)
  tr,            \* a transformer instance a caller holds
  budget,        \* TabularPreprocessor.budget
  pp_data_info,  \* TabularPreprocessor.data_info
  pipeline,      \* TabularPreprocessor.pipeline: None or the fitted steps
  log,           \* the stage fits and transforms of the last pipeline run
  last,          \* the call made last and the exception it raised
  calls,         \* the TabularData.update calls the last call made
  steps,         \* number of calls made
  cells,         \* the cell values of data.X, by column id (SpecValues only)
  learned        \* the values a fit stored, by column id (SpecValues only)

vars == <<data, tr, budget, pp_data_info, pipeline, log, last, calls, steps,
          cells, learned>>

Types == {"CAT", "NUM", "TIME"}

\* The row indexes of the raw tables: the RangeIndex of an ndarray (without
\* rows, with MaxRows rows), and of a DataFrame the integer labels
\* 1..MaxRows of a slice or the string labels "0".., which are also column
\* ids.
SliceIndex == {IntLabel(i) : i \in 1..MaxRows}
StringIndex == {str(i) : i \in 0..(MaxRows - 1)}
Indexes == {RangeIndex(0), RangeIndex(MaxRows), SliceIndex, StringIndex}

RawTables ==
  {RawTable(IF ix \in {SliceIndex, StringIndex} THEN "DataFrame" ELSE "ndarray",
            MaxCols, ix) : ix \in Indexes}

Hints(raw_x) == [1..Len(raw_x.columns) -> Types]

\* The stage instances that lines 58-73 construct.
Instances == {Construct(StageList[i]).obj :
                i \in {j \in 1..Len(StageList) : Construct(StageList[j]).err = "none"}}

Call(kind, op, err) == [kind |-> kind, op |-> op, err |-> err]

\* A caller holds a freshly constructed Dataset and a freshly constructed
\* stage; the preprocessor is as __init__ leaves it (lines 34-36).
Init ==
  /\ \E raw_x \in RawTables : \E hints \in Hints(raw_x) : data = TabularData(raw_x, hints)
  /\ tr \in Instances
  /\ budget = None
  /\ pp_data_info = None
  /\ pipeline = None
  /\ log = <<>>
  /\ last = Call("init", "", "none")
  /\ calls = <<>>
  /\ steps = 0
  /\ cells = <<>>
  /\ learned = <<>>

\* The same with the one stage fixed: only the Dataset is exercised.
InitRegistry == Init /\ tr = Construct(StageList[1]).obj

(* ------------------------------- actions ------------------------------- *)
Args(op, columns, x_tr, new_type) ==
  [op |-> op, columns |-> columns, x_tr |-> x_tr, new_type |-> new_type]

\* The arguments of the direct calls of TabularData.update: each operation
\* with existing, unknown and no column ids, without values, with an
\* ndarray, and with DataFrames whose column ids are new or taken and whose
\* index is the table's or a RangeIndex.
MutateArgs(d) ==
  LET new == Frame(<<"new">>, d.X.index)
  IN  { Args("upd", <<"0">>, NoValues, "NUM"),
        Args("upd", <<"0">>, NoValues, "CAT"),
        Args("upd", <<"new">>, NoValues, "TIME"),
        Args("upd", <<"0">>, NdArray(NRows(d.X), 1), NoType),
        Args("upd", <<>>, Frame(<<"0">>, d.X.index), "NUM"),
        Args("add", <<"0">>, new, "NUM"),
        Args("add", <<"0">>, Frame(<<"0">>, d.X.index), "NUM"),
        Args("add", <<>>, Frame(<<"new">>, RangeIndex(NRows(d.X))), "CAT"),
        Args("add", <<"0">>, new, NoType),
        Args("add", <<"0">>, NdArray(NRows(d.X), 1), "NUM"),
        Args("del", <<>>, NoValues, NoType),
        Args("del", <<"0">>, NoValues, NoType),
        Args("bogus", <<"0">>, new, "NUM"),
        Args("bogus", <<>>, NoValues, NoType) }

\* data.update(operation, columns, x_tr, new_type), called directly.
Mutate ==
  /\ steps < MaxSteps
  /\ \E a \in MutateArgs(data) :
       \E o \in update(data, a.op, a.columns, a.x_tr, a.new_type) :
         /\ data' = o.data
         /\ last' = Call("mutate", a.op, o.err)
         /\ calls' = <<[op |-> a.op, columns |-> a.columns, new_type |-> a.new_type]>>
  /\ steps' = steps + 1
  /\ UNCHANGED <<tr, budget, pp_data_info, pipeline, log, cells, learned>>

\* The calls of TabularData.update that come between a stage's fit and its
\* transform: column "0" retagged, a column added, column "0" deleted.
DisturbArgs(d) ==
  { Args("upd", <<"0">>, NoValues, t) : t \in Types }
    \cup { Args("add", <<>>, Frame(<<"new">>, d.X.index), "NUM"),
           Args("del", <<"0">>, NoValues, NoType) }

Disturb ==
  /\ steps < MaxSteps
  /\ \E a \in DisturbArgs(data) :
       \E o \in update(data, a.op, a.columns, a.x_tr, a.new_type) :
         /\ data' = o.data
         /\ last' = Call("mutate", a.op, o.err)
  /\ calls' = <<>>
  /\ steps' = steps + 1
  /\ UNCHANGED <<tr, budget, pp_data_info, pipeline, log, cells, learned>>

\* tr.fit(data, y)
Fit ==
  /\ steps < MaxSteps
  /\ \E o \in Primitive_fit(tr, data) :
       /\ tr' = o.tr
       /\ data' = o.data
       /\ last' = Call("fit", "", o.err)
       /\ calls' = o.calls
  /\ steps' = steps + 1
  /\ UNCHANGED <<budget, pp_data_info, pipeline, log, cells, learned>>

\* tr.transform(data)
Transform ==
  /\ steps < MaxSteps
  /\ \E o \in Primitive_transform(tr, data) :
       /\ tr' = o.tr
       /\ data' = o.data
       /\ last' = Call("transform", "", o.err)
       /\ calls' = o.calls
  /\ steps' = steps + 1
  /\ UNCHANGED <<budget, pp_data_info, pipeline, log, cells, learned>>

\* TabularPreprocessor.fit(raw_x, y, time_limit, data_info) (lines 38-77).
\* data_info=None is replaced by extract_data_info's NUM/CAT guess, one of
\* the hints enumerated here.
PreprocessorFit ==
  /\ steps < MaxSteps
  /\ \E raw_x \in RawTables : \E hints \in Hints(raw_x) :
       LET d == TabularData(raw_x, hints)
           built == ConstructAll(StageList)
           names == [i \in 1..Len(StageList) |-> StageList[i].name]
       IN  /\ budget' = Some(60)
           /\ pp_data_info' = Some(hints)
           /\ IF built.err # "none"
              THEN /\ data' = d
                   /\ UNCHANGED pipeline
                   /\ log' = <<>>
                   /\ last' = Call("preprocessor_fit", "", built.err)
              ELSE \E r \in PipelineFit(names, built.objs, d) :
                     /\ data' = r.data
                     /\ pipeline' = Some(r.steps)
                     /\ log' = r.log
                     /\ last' = Call("preprocessor_fit", "", r.err)
  /\ calls' = <<>>
  /\ steps' = steps + 1
  /\ UNCHANGED <<tr, cells, learned>>

\* TabularPreprocessor.transform(raw_x, time_limit) (lines 79-100).
\* len(self.data_info) raises TypeError when no fit stored the hints, and
\* self.pipeline.transform raises AttributeError while pipeline is None.
PreprocessorTransform ==
  /\ steps < MaxSteps
  /\ \E raw_x \in RawTables, time_limit \in {None, Some(60)} :
       /\ budget' = IF time_limit = None
                    THEN (IF budget = None THEN Some(DefaultBudget) ELSE budget)
                    ELSE time_limit
       /\ IF pp_data_info = None
          THEN /\ UNCHANGED <<data, pipeline>>
               /\ log' = <<>>
               /\ last' = Call("preprocessor_transform", "", "TypeError")
          ELSE LET d == TabularData(raw_x, pp_data_info[1])
               IN  IF pipeline = None
                   THEN /\ data' = d
                        /\ UNCHANGED pipeline
                        /\ log' = <<>>
                        /\ last' = Call("preprocessor_transform", "", "AttributeError")
                   ELSE \E r \in PipelineTransformFrom(pipeline[1], 1, d, <<>>) :
                          /\ data' = r.data
                          /\ pipeline' = Some(r.steps)
                          /\ log' = r.log
                          /\ last' = Call("preprocessor_transform", "", r.err)
  /\ calls' = <<>>
  /\ steps' = steps + 1
  /\ UNCHANGED <<tr, pp_data_info, cells, learned>>

\* A caller driving one stage on one Dataset.
Next == Fit \/ Transform \/ Disturb

Spec == Init /\ [][Next]_vars

\* A caller driving the Dataset alone.
NextRegistry == Mutate

SpecRegistry == InitRegistry /\ [][NextRegistry]_vars

\* A caller driving the preprocessor.
NextPreprocessor == PreprocessorFit \/ PreprocessorTransform

SpecPreprocessor == InitRegistry /\ [][NextPreprocessor]_vars

(* ------------------------------ cell values ---------------------------- *)
\* A cell holds a number or is missing (None: pandas' NaN).  A column is the
\* sequence of its cells in row order.
Values == {0, 1}
Cell == {None} \cup {Some(v) : v \in Values}

Present(col) == {col[i][1] : i \in {j \in 1..Len(col) : col[j] # None}}

\* data.X[col].value_counts() (line 538): the number of cells holding each
\* value; missing cells are not counted.
value_counts(col) ==
  [v \in Present(col) |-> Cardinality({i \in 1..Len(col) : col[i] = Some(v)})]

\* value_counts.idxmax() if not value_counts.empty else 0 (line 539): a value
\* of the greatest count; among several, the one value_counts sorted first.
MostFrequent(col) ==
  LET vc == value_counts(col)
  IN  IF DOMAIN vc = {} THEN {0}
      ELSE {v \in DOMAIN vc : \A w \in DOMAIN vc : vc[w] <= vc[v]}

\* Series.fillna(value) (line 544): a new column with the missing cells
\* replaced; the column it is called on stays as it is.
fillna(col, v) == [i \in 1..Len(col) |-> IF col[i] = None THEN Some(v) ELSE col[i]]

\* DataFrame.max(axis=0) in the place of min.
column_max(col) ==
  IF Present(col) = {} THEN None
  ELSE Some(CHOOSE m \in Present(col) : \A w \in Present(col) : w <= m)

\* DataFrame.min(axis=0), for one column (line 476): the least value that is
\* not missing, NaN when there is none.
column_min(col) ==
  IF Present(col) = {} THEN None
  ELSE Some(CHOOSE m \in Present(col) : \A w \in Present(col) : m <= w)

\* column - start_time (line 481): NaN wherever the cell or the learned
\* minimum is NaN.
minus(col, start) ==
  [i \in 1..Len(col) |->
     IF col[i] = None \/ start = None THEN None ELSE Some(col[i][1] - start[1])]

\* What the _fit of a stage stores, by column id, given the stage as
\* Primitive.fit leaves it: Imputation.impute_dict (lines 536-539),
\* TimeOffset.start_time (line 476), CatEncoder.cat_to_int_label (lines
\* 297-303), whose per-column map is still empty when the first read of a
\* cell raises, and stays empty when there is no row.  A fit that selects
\* nothing stores nothing.
fit_values(t, err, c, old) ==
  IF Falsy(t.selected) \/ t.params = None THEN {old}
  ELSE LET cols == Range(t.params[1].cols)
       IN  CASE t.cls = "Imputation" ->
                  {f \in [cols -> Values \cup {0}] : \A k \in cols : f[k] \in MostFrequent(c[k])}
             [] t.cls = "TimeOffset" ->
                  IF err # "none" THEN {old} ELSE {[k \in cols |-> column_min(c[k])]}
             [] t.cls = "CatEncoder" -> {[k \in cols |-> <<>>]}
             [] OTHER -> {old}

\* The cell values after a _transform with outcome o.  TimeOffset's x_tr is
\* written into the table by update('upd', ...) (lines 481-482, 167);
\* Imputation computes the filled columns and drops them, its update carries
\* no values (lines 543-545); CatEncoder writes no cell before its first read
\* raises (lines 310-311).
transform_values(t, o, c, l) ==
  IF Falsy(t.selected) \/ o.err # "none" THEN c
  ELSE LET sel == Range(t.selected[1])
       IN  CASE t.cls = "TimeOffset" ->
                  [k \in DOMAIN c |-> IF k \in sel THEN minus(c[k], l[k]) ELSE c[k]]
             [] t.cls = "Imputation" ->
                  LET filled == [k \in sel |-> fillna(c[k], l[k])]
                  IN  c
             [] OTHER -> c

\* The stages whose cell values are carried.
ValueInstances == {t \in Instances : t.cls \in {"Imputation", "CatEncoder", "TimeOffset"}}

\* A freshly constructed stage and a Dataset built from an ndarray of
\* MaxRows rows, with any cell values, whose columns all carry the type hint
\* the stage selects (CAT for the stage that selects ALL).
InitValues ==
  /\ tr \in ValueInstances
  /\ LET t == IF tr.selected_type[1] = "ALL" THEN "CAT" ELSE tr.selected_type[1]
     IN  data = TabularData(RawTable("ndarray", MaxCols, RangeIndex(MaxRows)),
                            [i \in 1..MaxCols |-> t])
  /\ cells \in [{str(i - 1) : i \in 1..MaxCols} -> [1..MaxRows -> Cell]]
  /\ learned = <<>>
  /\ budget = None
  /\ pp_data_info = None
  /\ pipeline = None
  /\ log = <<>>
  /\ last = Call("init", "", "none")
  /\ calls = <<>>
  /\ steps = 0

\* tr.fit(data, y), with the values it learns.  The runs that carry cell
\* values are one call shorter than the others.
FitValues ==
  /\ steps + 1 < MaxSteps
  /\ \E o \in Primitive_fit(tr, data) :
       /\ tr' = o.tr
       /\ data' = o.data
       /\ last' = Call("fit", "", o.err)
       /\ calls' = o.calls
       /\ learned' \in fit_values(o.tr, o.err, cells, learned)
  /\ steps' = steps + 1
  /\ UNCHANGED <<budget, pp_data_info, pipeline, log, cells>>

\* tr.transform(data), with the values it writes
TransformValues ==
  /\ steps + 1 < MaxSteps
  /\ \E o \in Primitive_transform(tr, data) :
       /\ tr' = o.tr
       /\ data' = o.data
       /\ last' = Call("transform", "", o.err)
       /\ calls' = o.calls
       /\ cells' = transform_values(tr, o, cells, learned)
  /\ steps' = steps + 1
  /\ UNCHANGED <<budget, pp_data_info, pipeline, log, learned>>

\* A caller driving one stage on one Dataset, cell values included.
NextValues == FitValues \/ TransformValues

SpecValues == InitValues /\ [][NextValues]_vars

(* ------------------------------- claims -------------------------------- *)
\* C1: in every state reached by calls of TabularData.update, the ids with an
\* entry in the type map are exactly the column ids of the table, and no id
\* occurs twice in the table.
C1_TypeMapMatchesTable ==
  /\ Range(Keys(data.data_info)) = Range(data.X.columns)
  /\ NoDup(data.X.columns)

\* C2: no stage's transform changes the number of rows of the Dataset.
C2_TransformKeepsRowCount ==
  [][last'.kind = "transform" => NRows(data'.X) = NRows(data.X)]_vars

\* The stage events C3 expects of a pipeline fit: fit i, transform i, for
\* each of the stages in the listed order.
RECURSIVE FitThenTransform(_, _)
FitThenTransform(i, n) ==
  IF i > n THEN <<>>
  ELSE <<Event("fit", i), Event("transform", i)>> \o FitThenTransform(i + 1, n)

\* C3: a pipeline fit runs the stages in the listed order, each stage's fit
\* immediately followed by its transform.
C3_FitRunsEveryStageInOrder ==
  last.kind = "preprocessor_fit" => log = FitThenTransform(1, Len(StageList))

C5_SelectedFixedAtFit ==
  [][/\ (last'.kind # "fit" /\ tr.selected # None) => tr'.selected = tr.selected
     /\ (/\ last'.kind = "transform"
         /\ calls' # <<>>
         /\ tr.selected # None
         /\ tr.drop_columns = None) => calls'[1].columns = tr.selected[1]]_vars

\* C5 witness: a transform has run while the Dataset's type tags select
\* other columns than the ones stored at fit.
C5_Witness ==
  /\ last.kind = "transform" /\ last.err = "none" /\ calls # <<>>
  /\ ~Falsy(tr.selected)
  /\ select_columns(data, tr.selected_type[1]).cols # tr.selected[1]

\* C6: after a fit that selected no column, a transform changes nothing of
\* the Dataset, calls data.update not at all and raises nothing.
C6_TrivialFitIsIdentity ==
  [][(last'.kind = "transform" /\ tr.selected = Some(<<>>)) =>
       (data' = data /\ calls' = <<>> /\ last'.err = "none")]_vars

\* C6 witness: a fit-trivial stage has been transformed on a Dataset that by
\* then has columns of the stage's type.
C6_Witness ==
  /\ last.kind = "transform"
  /\ tr.selected = Some(<<>>)
  /\ select_columns(data, tr.selected_type[1]).cols # <<>>

\* The type tag the transformer family table gives each class ("None": the
\* tags are left as they are).
EmittedType(cls) ==
  CASE cls \in {"TimeDiff", "TimeOffset"} -> "TIME"
    [] cls \in {"Imputation", "CatEncoder", "FilterConstant", "FeatureFilter",
                "FeatureImportance"} -> NoType
    [] OTHER -> "NUM"

\* C7: a transform of a stage with a non-empty selection that returns has
\* made exactly one data.update call, with the stage's operation and its
\* emitted type tag.
C7_TransformCallsUpdateOnce ==
  (last.kind = "transform" /\ last.err = "none" /\ ~Falsy(tr.selected)) =>
    /\ Len(calls) = 1
    /\ calls[1].op = tr.operation
    /\ calls[1].new_type = EmittedType(tr.cls)

C9_ListsAreDerivedView ==
  /\ data.cat_col = KeysOfType(data.data_info, "CAT")
  /\ data.num_col = KeysOfType(data.data_info, "NUM")
  /\ data.time_col = KeysOfType(data.data_info, "TIME")
  /\ Range(data.cat_col) \cap Range(data.num_col) = {}
  /\ Range(data.cat_col) \cap Range(data.time_col) = {}
  /\ Range(data.num_col) \cap Range(data.time_col) = {}
  /\ data.n_cat = Len(data.cat_col)
  /\ data.n_num = Len(data.num_col)
  /\ data.n_time = Len(data.time_col)

\* C9 witness: an update has added a column and tagged it, and the column is
\* in the list of its type.
C9_Witness ==
  /\ last.kind = "mutate" /\ last.op = "add" /\ last.err = "none"
  /\ "new" \in Range(data.cat_col)
  /\ "new" \in Range(data.X.columns)

\* C10: an update with an unrecognized operation raises nothing and leaves
\* the table and the type map unchanged.
C10_UnknownOperationIsNoOp ==
  [][(last'.kind = "mutate" /\ last'.op = "bogus") =>
       (/\ data'.X = data.X
        /\ data'.data_info = data.data_info
        /\ last'.err = "none")]_vars

\* C10 witness: an update with an unrecognized operation has been made on a
\* Dataset that earlier updates had changed.
C10_Witness ==
  /\ last.kind = "mutate" /\ last.op = "bogus"
  /\ steps >= 2
  /\ "new" \in Range(data.X.columns)

\* C11: an update with operation 'upd', 'add' or 'del' and an empty column
\* list leaves the table and the type map unchanged, whatever x_tr and
\* new_type come with it.
C11_EmptyColumnListIsNoOp ==
  [][(/\ last'.kind = "mutate"
      /\ last'.op \in {"upd", "add", "del"}
      /\ calls'[1].columns = <<>>) =>
       (data'.X = data.X /\ data'.data_info = data.data_info)]_vars

\* C12: a 'del' update with a non-empty list of existing column ids removes
\* exactly those columns from the table and those entries from the type map,
\* keeps every other column and its tag, and removes no row.
C12_DeleteRemovesExactlyTheColumns ==
  [][(/\ last'.kind = "mutate" /\ last'.op = "del"
      /\ calls'[1].columns # <<>>
      /\ Range(calls'[1].columns) \subseteq Range(data.X.columns)) =>
       (/\ last'.err = "none"
        /\ data'.X.columns =
             SelectSeq(data.X.columns, LAMBDA c : c \notin Range(calls'[1].columns))
        /\ data'.data_info =
             SelectSeq(data.data_info, LAMBDA e : e.k \notin Range(calls'[1].columns))
        /\ data'.X.index = data.X.index)]_vars

\* C13: the transform of Imputation leaves the schema as it was: the same
\* column ids, and every column with the type tag it had before.
C13_ImputationKeepsSchema ==
  [][(/\ last'.kind = "transform" /\ last'.err = "none"
      /\ tr.cls = "Imputation" /\ ~Falsy(tr.selected)) =>
       (data'.X.columns = data.X.columns /\ data'.data_info = data.data_info)]_vars

\* C16: the transform of a categorical encoder that holds a selection and a
\* learned map never fails, whatever values the table holds by then, and
\* leaves the number of rows as it was.
C16_EncodersNeverFail ==
  [][(/\ last'.kind = "transform"
      /\ tr.cls \in {"CatEncoder", "TargetEncoder", "CatCatEncoder", "CatBinEncoder"}
      /\ ~Falsy(tr.selected) /\ tr.params # None
      /\ Range(tr.selected[1]) \subseteq Range(tr.params[1].cols)
      /\ FirstMissing(data.X, tr.selected[1]) = 0) =>
       (last'.err = "none" /\ NRows(data'.X) = NRows(data.X))]_vars

\* C17: FilterConstant's transform, run after its fit, removes from the table
\* exactly the columns the fit found with maximum equal to minimum.
C17_FilterConstantRemovesConstantColumns ==
  [][(/\ last.kind = "fit" /\ last.err = "none"
      /\ last'.kind = "transform"
      /\ tr.cls = "FilterConstant" /\ ~Falsy(tr.selected)) =>
       (/\ last'.err = "none"
        /\ data'.X.columns =
             SelectSeq(data.X.columns, LAMBDA c : c \notin Range(tr.drop_columns[1])))]_vars

\* C18: after a fit of FeatureFilter the drop list holds columns examined by
\* that fit only, each once, in the order examined; and the transform that
\* follows the fit removes exactly the listed columns from the table.
C18_FeatureFilterKeepsCorrelated ==
  [][/\ (/\ last'.kind = "fit" /\ last'.err = "none"
         /\ tr'.cls = "FeatureFilter" /\ ~Falsy(tr'.selected)) =>
          tr'.drop_columns[1] \in SubLists(tr'.selected[1])
     /\ (/\ last.kind = "fit" /\ last.err = "none"
         /\ last'.kind = "transform"
         /\ tr.cls = "FeatureFilter" /\ ~Falsy(tr.selected)) =>
          (/\ last'.err = "none"
           /\ data'.X.columns =
                SelectSeq(data.X.columns, LAMBDA c : c \notin Range(tr.drop_columns[1])))]_vars

\* C20: the 'add' update an additive stage makes in its transform only
\* appends: the columns there before keep their place and their type tag,
\* the appended ids are none of the ids there before, and only appended ids
\* get a tag.
C20_AddOnlyAppends ==
  [][(/\ last'.kind = "transform" /\ last'.err = "none"
      /\ calls' # <<>> /\ tr.operation = "add") =>
       LET n == Len(data.X.columns)
           appended == {data'.X.columns[i] : i \in (n + 1)..Len(data'.X.columns)}
       IN  /\ Len(data'.X.columns) >= n
           /\ SubSeq(data'.X.columns, 1, n) = data.X.columns
           /\ appended \cap Range(data.X.columns) = {}
           /\ \A i \in 1..Len(data.data_info) : data'.data_info[i] = data.data_info[i]
           /\ \A i \in (Len(data.data_info) + 1)..Len(data'.data_info) :
                data'.data_info[i].k \in appended]_vars

\* C14: after Imputation's transform every cell of a selected column that
\* was missing holds the value learned for the column at fit, and no cell of
\* a selected column is missing.
C14_ImputationFillsMissing ==
  [][(/\ last'.kind = "transform" /\ last'.err = "none"
      /\ tr.cls = "Imputation" /\ ~Falsy(tr.selected)) =>
       \A k \in Range(tr.selected[1]) : \A i \in 1..Len(cells[k]) :
         /\ cells'[k][i] # None
         /\ cells[k][i] = None => cells'[k][i] = Some(learned[k])]_vars

\* The map C15 expects CatEncoder to learn for a column: its distinct values
\* in first-seen order, the code of a value being its position less one.
RECURSIVE FirstSeen(_)
FirstSeen(col) ==
  IF col = <<>> THEN <<>>
  ELSE LET before == FirstSeen(SubSeq(col, 1, Len(col) - 1))
           v == col[Len(col)]
       IN  IF v \in Range(before) THEN before ELSE Append(before, v)

\* C15: a fit of CatEncoder completes and stores, for every selected column,
\* the map from the column's distinct values in first-seen order to the
\* codes 0, 1, 2, ...; and every transform of the fitted encoder completes
\* and leaves that map as it is.
C15_LabelEncodingIsStable ==
  [][/\ (/\ last'.kind = "fit"
         /\ tr'.cls = "CatEncoder" /\ ~Falsy(tr'.selected)) =>
          (/\ last'.err = "none"
           /\ \A k \in Range(tr'.selected[1]) :
                k \in DOMAIN learned' /\ learned'[k] = FirstSeen(cells[k]))
     /\ (/\ last'.kind = "transform"
         /\ tr.cls = "CatEncoder" /\ ~Falsy(tr.selected)) =>
          (last'.err = "none" /\ learned' = learned)]_vars

\* The transform of TimeOffset that follows its fit on the same Dataset.
TimeOffsetOnFitSet ==
  /\ last.kind = "fit" /\ last.err = "none"
  /\ last'.kind = "transform" /\ last'.err = "none"
  /\ tr.cls = "TimeOffset" /\ ~Falsy(tr.selected)

\* C19 as stated: after TimeOffset's fit and transform on the fit set, every
\* selected column has the minimum 0 and no value below 0, and the column
\* ids and the type tags are as before.
C19_TimeOffsetMinimumIsZero ==
  [][TimeOffsetOnFitSet =>
       /\ data'.X.columns = data.X.columns
       /\ data'.data_info = data.data_info
       /\ \A k \in Range(tr.selected[1]) :
            /\ \E i \in 1..Len(cells'[k]) : cells'[k][i] = Some(0)
            /\ \A i \in 1..Len(cells'[k]) : cells'[k][i] # None => cells'[k][i][1] >= 0]_vars

\* C19, amended: after TimeOffset's fit and transform on the fit set, every
\* selected column that held a value at fit has the minimum 0 over its
\* values, each value being the former one less the column's former
\* minimum; missing cells stay missing, so a column without any value has no
\* minimum; the column ids and the type tags are as before.
C19_TimeOffsetMinimumIsZeroWhereValues ==
  [][TimeOffsetOnFitSet =>
       /\ data'.X.columns = data.X.columns
       /\ data'.data_info = data.data_info
       /\ \A k \in Range(tr.selected[1]) :
            /\ Present(cells[k]) # {} => \E i \in 1..Len(cells'[k]) : cells'[k][i] = Some(0)
            /\ \A i \in 1..Len(cells'[k]) :
                 /\ cells'[k][i] = None <=> cells[k][i] = None
                 /\ cells'[k][i] # None =>
                      /\ cells'[k][i][1] >= 0
                      /\ \A j \in 1..Len(cells[k]) :
                           cells[k][j] # None =>
                             cells'[k][i][1] - cells'[k][j][1] = cells[k][i][1] - cells[k][j][1]]_vars

\* C19 witness: TimeOffset has been fit and transformed on a Dataset with a
\* selected column whose minimum was above 0 and is 0 now, beside a missing
\* cell that is still missing.
C19_Witness ==
  /\ last.kind = "transform" /\ last.err = "none"
  /\ tr.cls = "TimeOffset" /\ ~Falsy(tr.selected)
  /\ steps = 2
  /\ \E k \in Range(tr.selected[1]) :
       /\ k \in DOMAIN learned /\ learned[k] = Some(1)
       /\ \E i \in 1..Len(cells[k]) : cells[k][i] = Some(0)
       /\ \E i \in 1..Len(cells[k]) : cells[k][i] = None

\* C21: the fit of a cross-interest encoder completes and resolves its
\* declared interests against the Dataset: the selection it stores is the
\* list of the CAT-tagged columns, from which its features are paired.
C21_CrossEncoderResolvesInterests ==
  (last.kind = "fit" /\ tr.cls \in HigherOrderClasses \cup {"CatNumEncoder"}) =>
    /\ last.err = "none"
    /\ tr.selected = Some(data.cat_col)

\* C22: a replay that follows the pipeline fit, on a raw table of the same
\* columns and type hints, runs the transform of every stage in order
\* without error and leaves the Dataset with the column ids and the type map
\* the fit left.
C22_ReplayReproducesFitSchema ==
  [][(last.kind = "preprocessor_fit" /\ last'.kind = "preprocessor_transform") =>
       /\ last'.err = "none"
       /\ log' = [i \in 1..Len(StageList) |-> Event("transform", i)]
       /\ data'.X.columns = data.X.columns
       /\ data'.data_info = data.data_info]_vars
====
